---- MODULE Spec2Model ----
(***************************************************************************)
(* Model of app.py, the Streamlit house price predictor: the feature       *)
(* aligner build_features_df, the session state machine (Welcome / App,    *)
(* prediction history, dark mode) and the feedback store feedback.json.    *)
(*                                                                         *)
(* Python's None is modelled as the empty tuple and a present value v as   *)
(* the one-element tuple <<v>>.  A dict is a TLA+ record; a DataFrame row  *)
(* is the ordered sequence of its columns, each [name, value].             *)
(***************************************************************************)
EXTENDS Integers, Sequences, FiniteSets, TLC

VARIABLES
    logged_in,          \* st.session_state.logged_in
    page,               \* st.session_state.page
    history,            \* st.session_state.history
    dark_mode,          \* st.session_state.dark_mode
    feedback_submitted, \* st.session_state.feedback_submitted
    store,              \* the file feedback.json
    model,              \* the artifact house_price_model.pkl as joblib.load sees it
    last,               \* the handler that ran last and whether it went through
    raw,                \* the Home tab's widget values fed to build_features_df
    X,                  \* the row build_features_df returned, None before it ran
    fb,                 \* per concurrent session: position in the submit handler
    order,              \* the file operations of the concurrent sessions, in order
    store0              \* feedback.json as it was before the concurrent sessions

vars == <<logged_in, page, history, dark_mode, feedback_submitted, store, model,
          last, raw, X, fb, order, store0>>

sessionVars == <<logged_in, page, history, dark_mode, feedback_submitted>>
concVars == <<fb, order, store0>>

None == <<>>
Some(v) == <<v>>

-----------------------------------------------------------------------------
(* Bounds of the model *)

MaxNames == 2       \* longest generated feature_names_in_
MaxHistory == 2     \* predictions kept per explored session
MaxStore == 2       \* records in feedback.json per explored run

-----------------------------------------------------------------------------
(* Home tab inputs, app.py 176-188 *)

YesNo == {"Yes", "No"}
FurnishingOptions == {"Furnished", "Semi-Furnished", "Unfurnished"}
Areas == {1500, 10000}
Locations == {"", "Lahore"}

RawInputs ==
    [area : Areas, bedrooms : {3}, bathrooms : {2}, stories : {2}, parking : {1},
     mainroad : YesNo, guestroom : YesNo, basement : YesNo,
     hotwaterheating : YesNo, airconditioning : YesNo, prefarea : YesNo,
     furnishingstatus : FurnishingOptions]

\* The widgets' default values, with the furnishing status left to the user.
HomeInputs ==
    {r \in RawInputs : /\ r.area = 1500
                       /\ r.mainroad = "Yes" /\ r.guestroom = "Yes"
                       /\ r.basement = "Yes" /\ r.hotwaterheating = "Yes"
                       /\ r.airconditioning = "Yes" /\ r.prefarea = "Yes"}

DefaultInput == CHOOSE r \in HomeInputs : r.furnishingstatus = "Furnished"

-----------------------------------------------------------------------------
(* The model artifact's schema, app.py 160-167 *)

BaseNames ==
    <<"area", "bedrooms", "bathrooms", "stories", "mainroad", "guestroom",
      "basement", "hotwaterheating", "airconditioning", "parking", "prefarea">>

LabelNames == BaseNames \o <<"furnishingstatus">>
OneHotNames ==
    BaseNames \o <<"furnishingstatus_furnished", "furnishingstatus_semi-furnished">>
\* A one-hot training frame in which only two furnishing categories occurred.
TwoCategoryNames == BaseNames \o <<"furnishingstatus_semi-furnished">>
\* A label-encoded training frame with one more engineered column, permuted.
ExtendedNames == <<"location_code", "furnishingstatus">> \o BaseNames

NameUniverse ==
    {"area", "furnishingstatus", "furnishingstatus_semi-furnished", "location_code"}

SeqsUpTo(S, n) == UNION {[1..k -> S] : k \in 0..n}

NameSeqs ==
    SeqsUpTo(NameUniverse, MaxNames)
        \cup {LabelNames, OneHotNames, TwoCategoryNames, ExtendedNames}

Counts == {11, 12, 13, 14}

Schemas ==
    [loaded : {TRUE},
     n_features_in_ : {None} \cup {Some(n) : n \in Counts},
     feature_names_in_ : {None} \cup {Some(s) : s \in NameSeqs}]

Unloadable == [loaded |-> FALSE, n_features_in_ |-> None, feature_names_in_ |-> None]

-----------------------------------------------------------------------------
(* build_features_df, app.py 191-214 *)

yn(v) == IF v = "Yes" THEN 1 ELSE 0

Col(n, v) == [name |-> n, value |-> v]

base_vals(r) ==
    << Col("area", r.area), Col("bedrooms", r.bedrooms),
       Col("bathrooms", r.bathrooms), Col("stories", r.stories),
       Col("mainroad", yn(r.mainroad)), Col("guestroom", yn(r.guestroom)),
       Col("basement", yn(r.basement)),
       Col("hotwaterheating", yn(r.hotwaterheating)),
       Col("airconditioning", yn(r.airconditioning)),
       Col("parking", r.parking), Col("prefarea", yn(r.prefarea)) >>

fs_map(f) ==
    CASE f = "Furnished" -> 0
      [] f = "Semi-Furnished" -> 1
      [] f = "Unfurnished" -> 2

\* Mutant of UseLabelEncoding: the count test is off by one.
UseLabelEncodingOffByOne(r, m) ==
    /\ m.n_features_in_ # None
    /\ m.n_features_in_[1] # 0
    /\ m.n_features_in_[1] = Len(base_vals(r)) + 2

\* expected_features and expected_features == len(base_vals)+1
UseLabelEncoding(r, m) ==
    /\ m.n_features_in_ # None
    /\ m.n_features_in_[1] # 0
    /\ m.n_features_in_[1] = Len(base_vals(r)) + 1

\* Mutant of EncodedRow: the one-hot branch is taken whatever the count.
EncodedRowAlwaysOneHot(r, m) ==
    LET furnished == IF r.furnishingstatus = "Furnished" THEN 1 ELSE 0
        semi == IF r.furnishingstatus = "Semi-Furnished" THEN 1 ELSE 0
    IN  base_vals(r) \o <<Col("furnishingstatus_furnished", furnished),
                           Col("furnishingstatus_semi-furnished", semi)>>

\* The row built by the if/else of lines 200-208, before any name alignment.
EncodedRow(r, m) ==
    IF UseLabelEncoding(r, m)
    THEN base_vals(r) \o <<Col("furnishingstatus", fs_map(r.furnishingstatus))>>
    ELSE LET furnished == IF r.furnishingstatus = "Furnished" THEN 1 ELSE 0
             semi == IF r.furnishingstatus = "Semi-Furnished" THEN 1 ELSE 0
         IN  base_vals(r) \o <<Col("furnishingstatus_furnished", furnished),
                                Col("furnishingstatus_semi-furnished", semi)>>

Columns(row) == {row[i].name : i \in 1..Len(row)}

ValueOf(row, c) == row[CHOOSE i \in 1..Len(row) : row[i].name = c].value

\* Mutant of PadMissing: a missing column is filled with 1.
RECURSIVE PadMissingWithOne(_, _)
PadMissingWithOne(row, names) ==
    IF names = <<>> THEN row
    ELSE IF Head(names) \in Columns(row)
         THEN PadMissingWithOne(row, Tail(names))
         ELSE PadMissingWithOne(Append(row, Col(Head(names), 1)), Tail(names))

\* for c in feature_names_in: if c not in X_local.columns: X_local[c]=0
RECURSIVE PadMissing(_, _)
PadMissing(row, names) ==
    IF names = <<>> THEN row
    ELSE IF Head(names) \in Columns(row)
         THEN PadMissing(row, Tail(names))
         ELSE PadMissing(Append(row, Col(Head(names), 0)), Tail(names))

\* Mutant of SelectColumns: the row is left in the order it was built in.
SelectColumnsKeepAll(row, names) == row

\* X_local[[c for c in feature_names_in]]
SelectColumns(row, names) ==
    [i \in 1..Len(names) |-> Col(names[i], ValueOf(row, names[i]))]

build_features_df(r, m) ==
    LET X_local == EncodedRow(r, m)
    IN  IF m.feature_names_in_ # None
        THEN LET names == m.feature_names_in_[1]
             IN  SelectColumns(PadMissing(X_local, names), names)
        ELSE X_local

ColumnNames(row) == [i \in 1..Len(row) |-> row[i].name]

-----------------------------------------------------------------------------
(* model.predict and the price formatting, app.py 219-224 *)

Prices == {1234567}

\* What model.predict(X)[0] can be: a number, a value "{:,.0f}" cannot format
\* (an array, for a multi-output model), or an exception.  A fitted estimator
\* rejects a row whose column count or column names are not those it was fit
\* with; beyond that the model is a black box and may raise for its own reasons.
ShapeAccepted(m, row) ==
    /\ m.n_features_in_ # None => Len(row) = m.n_features_in_[1]
    /\ m.feature_names_in_ # None => ColumnNames(row) = m.feature_names_in_[1]

PredictOutcomes(m, row) ==
    {[kind |-> "raises", pred |-> 0]}
        \cup (IF ShapeAccepted(m, row)
              THEN {[kind |-> "number", pred |-> p] : p \in Prices}
                       \cup {[kind |-> "array", pred |-> 0]}
              ELSE {})

DigitChars == <<"0", "1", "2", "3", "4", "5", "6", "7", "8", "9">>

ThreeDigits(n) ==
    <<DigitChars[(n \div 100) + 1], DigitChars[((n \div 10) % 10) + 1],
      DigitChars[(n % 10) + 1]>>

RECURSIVE Digits(_)
Digits(n) ==
    IF n < 10 THEN <<DigitChars[n + 1]>>
    ELSE Append(Digits(n \div 10), DigitChars[(n % 10) + 1])

\* format(pred, ",.0f") for a whole number of rupees
RECURSIVE Grouped(_)
Grouped(n) ==
    IF n < 1000 THEN Digits(n)
    ELSE Grouped(n \div 1000) \o <<",">> \o ThreeDigits(n % 1000)

\* f"Rs {pred:,.0f}"; "Rs" stands for the rupee sign U+20A8
FormatPrice(pred) == <<"Rs", " ">> \o Grouped(pred)

HistoryEntry(r, location, pred) ==
    [Location |-> IF location # "" THEN location ELSE "Unknown",
     Area |-> r.area, Bedrooms |-> r.bedrooms, Bathrooms |-> r.bathrooms,
     Stories |-> r.stories, Parking |-> r.parking,
     PredictedPrice |-> FormatPrice(pred)]

-----------------------------------------------------------------------------
(* The feedback store, app.py 32-43, and the form's inputs, app.py 311-313 *)

Whitespace == {" ", "\n", "\t"}

\* Feedback texts as sequences of characters.
Texts ==
    { <<>>, <<" ">>, <<"\n", " ", "\t">>,
      <<" ", "G", "r", "e", "a", "t", "\n">> }

FormNames == {"", "Sid"}
Ratings == {1, 5}
Timestamps == {"2025-01-01 10:00:00"}

RECURSIVE LStrip(_)
LStrip(t) ==
    IF t # <<>> /\ Head(t) \in Whitespace THEN LStrip(Tail(t)) ELSE t

RECURSIVE RStrip(_)
RStrip(t) ==
    IF t # <<>> /\ t[Len(t)] \in Whitespace
    THEN RStrip(SubSeq(t, 1, Len(t) - 1))
    ELSE t

\* str.strip()
Strip(t) == RStrip(LStrip(t))

FeedbackRecords ==
    [name : (FormNames \ {""}) \cup {"Anonymous"}, rating : Ratings,
     feedback : {t \in Texts : Strip(t) # <<>>}, date : Timestamps]

\* feedback.json: absent, present but not JSON, or a JSON list of records.
\* json.dump / json.load of a list of dicts of str and int give the list back;
\* a dict is a record here, so the file's "data" is the list itself.
MissingFile == [kind |-> "missing", data |-> <<>>]
\* open("feedback.json", "w") leaves a zero-length file until the dump lands.
EmptyFile == [kind |-> "empty", data |-> <<>>]
GarbageFile == [kind |-> "garbage", data |-> <<>>]

\* Mutant of load_feedback: the newest stored record is not read.
load_feedback_drop_last(file) ==
    IF file.kind = "json" /\ file.data # <<>>
    THEN SubSeq(file.data, 1, Len(file.data) - 1)
    ELSE <<>>

load_feedback(file) ==
    IF file.kind = "missing" THEN <<>>
    ELSE IF file.kind = "json" THEN file.data
    ELSE <<>>

save_feedback(feedback_list) == [kind |-> "json", data |-> feedback_list]

\* Mutant of new_feedback: an omitted name is stored as it was given.
new_feedback_name_as_given(name, rating, feedback, now) ==
    [name |-> name, rating |-> rating, feedback |-> feedback, date |-> now]

new_feedback(name, rating, feedback, now) ==
    [name |-> IF name # "" THEN name ELSE "Anonymous",
     rating |-> rating, feedback |-> feedback, date |-> now]

-----------------------------------------------------------------------------
(* The session: one user, one handler per action *)

\* What `last` records: the handler, whether it went through, and for the
\* feedback form the values submitted.
Ran(op, ok) == [op |-> op, ok |-> ok, form |-> None]
Submitted(name, rating, feedback, ok) ==
    [op |-> "submit", ok |-> ok,
     form |-> Some([name |-> name, rating |-> rating, feedback |-> feedback])]

Sessions == {1, 2}

IdleSession == [pc |-> "form", feedback_list |-> <<>>, new_feedback |-> None]

\* Models a session is explored with: label encoded, one-hot with names,
\* a fourteen column model without names, and an unreadable artifact.
SessionModels ==
    { [loaded |-> TRUE, n_features_in_ |-> Some(12), feature_names_in_ |-> None],
      [loaded |-> TRUE, n_features_in_ |-> Some(13),
       feature_names_in_ |-> Some(OneHotNames)],
      [loaded |-> TRUE, n_features_in_ |-> Some(14), feature_names_in_ |-> None],
      Unloadable }

InitialStores == {MissingFile, GarbageFile, save_feedback(<<>>)}

\* Session state defaults, app.py 18-27
Init ==
    /\ logged_in = FALSE
    /\ page = "Welcome"
    /\ history = <<>>
    /\ dark_mode = FALSE
    /\ feedback_submitted = FALSE
    /\ store \in InitialStores
    /\ model \in SessionModels
    /\ last = Ran("start", TRUE)
    /\ raw = DefaultInput
    /\ X = None
    /\ fb = [s \in Sessions |-> IdleSession]
    /\ order = <<>>
    /\ store0 = store

\* The tabs are rendered, and the model loaded, app.py 148 and 160-164
InApp == page # "Welcome" /\ logged_in /\ model.loaded

\* st.toggle, app.py 108
ToggleDarkMode ==
    /\ dark_mode' = ~dark_mode
    /\ last' = Ran("toggle", TRUE)
    /\ UNCHANGED <<logged_in, page, history, feedback_submitted, store, model,
                   raw, X, fb, order, store0>>

\* A rerun of the script with no button pressed.
Rerun ==
    /\ last' = Ran("rerun", TRUE)
    /\ UNCHANGED <<logged_in, page, history, dark_mode, feedback_submitted, store,
                   model, raw, X, fb, order, store0>>

\* Mutant of GetStarted: the page is switched but logged_in is not set.
GetStartedPageOnly ==
    /\ page = "Welcome"
    /\ page' = "App"
    /\ last' = Ran("get_started", TRUE)
    /\ UNCHANGED <<logged_in, history, dark_mode, feedback_submitted, store, model,
                   raw, X, fb, order, store0>>

\* app.py 138-141
GetStarted ==
    /\ page = "Welcome"
    /\ logged_in' = TRUE
    /\ page' = "App"
    /\ last' = Ran("get_started", TRUE)
    /\ UNCHANGED <<history, dark_mode, feedback_submitted, store, model,
                   raw, X, fb, order, store0>>

\* Mutant of Predict: the entry is appended before the prediction is made, so
\* a failing press leaves it behind.
PredictAppendFirst ==
    /\ InApp
    /\ Len(history) < MaxHistory
    /\ \E r \in HomeInputs, location \in Locations :
         \E out \in PredictOutcomes(model, build_features_df(r, model)) :
            /\ history' = Append(history, HistoryEntry(r, location, out.pred))
            /\ last' = Ran("predict", out.kind = "number")
    /\ UNCHANGED <<logged_in, page, dark_mode, feedback_submitted, store, model,
                   raw, X, fb, order, store0>>

\* app.py 216-227
Predict ==
    /\ InApp
    /\ Len(history) < MaxHistory
    /\ \E r \in HomeInputs, location \in Locations :
         \E out \in PredictOutcomes(model, build_features_df(r, model)) :
            IF out.kind = "number"
            THEN /\ history' = Append(history, HistoryEntry(r, location, out.pred))
                 /\ last' = Ran("predict", TRUE)
            ELSE /\ history' = history
                 /\ last' = Ran("predict", FALSE)
    /\ UNCHANGED <<logged_in, page, dark_mode, feedback_submitted, store, model,
                   raw, X, fb, order, store0>>

\* Mutant of SubmitFeedback: the text is not stripped before the emptiness test.
SubmitFeedbackNoStrip ==
    /\ InApp
    /\ \E name \in FormNames, rating \in Ratings, feedback \in Texts,
          now \in Timestamps :
         IF feedback # <<>>
         THEN LET feedback_list == load_feedback(store)
              IN  /\ Len(feedback_list) < MaxStore
                  /\ store' = save_feedback(
                        Append(feedback_list,
                               new_feedback(name, rating, feedback, now)))
                  /\ feedback_submitted' = TRUE
                  /\ last' = Submitted(name, rating, feedback, Strip(feedback) # <<>>)
         ELSE /\ UNCHANGED <<store, feedback_submitted>>
              /\ last' = Submitted(name, rating, feedback, FALSE)
    /\ UNCHANGED <<logged_in, page, history, dark_mode, model, raw, X, fb, order,
                   store0>>

\* app.py 316-335
SubmitFeedback ==
    /\ InApp
    /\ \E name \in FormNames, rating \in Ratings, feedback \in Texts,
          now \in Timestamps :
         IF Strip(feedback) # <<>>
         THEN LET feedback_list == load_feedback(store)
              IN  /\ Len(feedback_list) < MaxStore
                  /\ store' = save_feedback(
                        Append(feedback_list,
                               new_feedback(name, rating, feedback, now)))
                  /\ feedback_submitted' = TRUE
                  /\ last' = Submitted(name, rating, feedback, TRUE)
         ELSE /\ UNCHANGED <<store, feedback_submitted>>
              /\ last' = Submitted(name, rating, feedback, FALSE)
    /\ UNCHANGED <<logged_in, page, history, dark_mode, model, raw, X, fb, order,
                   store0>>

\* app.py 369-372
ConfirmLogout ==
    /\ InApp
    /\ logged_in' = FALSE
    /\ page' = "Welcome"
    /\ last' = Ran("logout", TRUE)
    /\ UNCHANGED <<history, dark_mode, feedback_submitted, store, model,
                   raw, X, fb, order, store0>>

Next ==
    \/ ToggleDarkMode
    \/ Rerun
    \/ GetStarted
    \/ Predict
    \/ SubmitFeedback
    \/ ConfirmLogout

Spec == Init /\ [][Next]_vars

-----------------------------------------------------------------------------
(* The aligner on its own: every raw input against every schema *)

InitAlign ==
    /\ logged_in = TRUE
    /\ page = "App"
    /\ history = <<>>
    /\ dark_mode = FALSE
    /\ feedback_submitted = FALSE
    /\ store = MissingFile
    /\ model \in Schemas
    /\ last = Ran("get_started", TRUE)
    /\ raw \in RawInputs
    /\ X = None
    /\ fb = [s \in Sessions |-> IdleSession]
    /\ order = <<>>
    /\ store0 = store

\* X = build_features_df(), app.py 216
Align ==
    /\ InApp
    /\ X = None
    /\ X' = Some(build_features_df(raw, model))
    /\ last' = Ran("rerun", TRUE)
    /\ UNCHANGED <<logged_in, page, history, dark_mode, feedback_submitted, store,
                   model, raw, fb, order, store0>>

NextAlign == Align

SpecAlign == InitAlign /\ [][NextAlign]_vars

-----------------------------------------------------------------------------
(* Two sessions submitting feedback at once: the handler of app.py 316-333   *)
(* split at its file operations (read at 34-36, truncating open at 42, dump  *)
(* at 43), which other sessions' file operations can fall between.           *)

ConcInitialStores ==
    InitialStores
        \cup {save_feedback(<<new_feedback("Bob", 1, <<"o", "k">>,
                                            "2025-01-01 10:00:00")>>)}

InitConc ==
    /\ logged_in = TRUE
    /\ page = "App"
    /\ history = <<>>
    /\ dark_mode = FALSE
    /\ feedback_submitted = FALSE
    /\ store \in ConcInitialStores
    /\ model = [loaded |-> TRUE, n_features_in_ |-> Some(12),
                feature_names_in_ |-> None]
    /\ last = Ran("get_started", TRUE)
    /\ raw = DefaultInput
    /\ X = None
    /\ fb = [s \in Sessions |-> IdleSession]
    /\ order = <<>>
    /\ store0 = store

\* if submitted: if feedback.strip(): feedback_list = load_feedback()
LoadStep(s) ==
    /\ fb[s].pc = "form"
    /\ \E name \in FormNames, rating \in Ratings, feedback \in Texts,
          now \in Timestamps :
         IF Strip(feedback) # <<>>
         THEN /\ fb' = [fb EXCEPT ![s] =
                          [pc |-> "loaded",
                           feedback_list |-> load_feedback(store),
                           new_feedback |->
                               Some(new_feedback(name, rating, feedback, now))]]
              /\ order' = Append(order, <<s, "load">>)
         ELSE /\ fb' = [fb EXCEPT ![s].pc = "rejected"]
              /\ order' = order
    /\ UNCHANGED <<logged_in, page, history, dark_mode, feedback_submitted, store,
                   model, last, raw, X, store0>>

\* Mutant of OpenStep: the new record is never appended to the loaded list.
OpenStepNoAppend(s) ==
    /\ fb[s].pc = "loaded"
    /\ fb' = [fb EXCEPT ![s].pc = "opened"]
    /\ store' = EmptyFile
    /\ order' = Append(order, <<s, "open">>)
    /\ UNCHANGED <<logged_in, page, history, dark_mode, feedback_submitted,
                   model, last, raw, X, store0>>

\* feedback_list.append(new_feedback); open("feedback.json", "w")
OpenStep(s) ==
    /\ fb[s].pc = "loaded"
    /\ fb' = [fb EXCEPT ![s].pc = "opened",
                        ![s].feedback_list =
                            Append(fb[s].feedback_list, fb[s].new_feedback[1])]
    /\ store' = EmptyFile
    /\ order' = Append(order, <<s, "open">>)
    /\ UNCHANGED <<logged_in, page, history, dark_mode, feedback_submitted,
                   model, last, raw, X, store0>>

\* json.dump(feedback_list, f, indent=4) and the close.  Written over a file
\* the other session filled since this one truncated it, the bytes of the two
\* dumps overlay: the result is this session's list, or not JSON at all.
DumpStep(s) ==
    /\ fb[s].pc = "opened"
    /\ \/ store' = save_feedback(fb[s].feedback_list)
       \/ /\ store.kind = "json"
          /\ store' = GarbageFile
    /\ fb' = [fb EXCEPT ![s].pc = "saved"]
    /\ order' = Append(order, <<s, "dump">>)
    /\ UNCHANGED <<logged_in, page, history, dark_mode, feedback_submitted,
                   model, last, raw, X, store0>>

NextConc == \E s \in Sessions : LoadStep(s) \/ OpenStep(s) \/ DumpStep(s)

SpecConc == InitConc /\ [][NextConc]_vars

-----------------------------------------------------------------------------
(* Properties of the aligner, checked under SpecAlign *)

Built == X # None
Row == X[1]
NamesKnown == model.feature_names_in_ # None
ExpectedNames == model.feature_names_in_[1]
LabelCount == model.n_features_in_ = Some(12)

OneHotColumns == {"furnishingstatus_furnished", "furnishingstatus_semi-furnished"}

Positions(row, c) == {i \in 1..Len(row) : row[i].name = c}

\* The column c occurs exactly once in the row, with value v.
Carries(row, c, v) ==
    /\ Cardinality(Positions(row, c)) = 1
    /\ \A i \in Positions(row, c) : row[i].value = v

LabelCode(f) ==
    IF f = "Furnished" THEN 0 ELSE IF f = "Semi-Furnished" THEN 1 ELSE 2
FurnishedFlag(f) == IF f = "Furnished" THEN 1 ELSE 0
SemiFlag(f) == IF f = "Semi-Furnished" THEN 1 ELSE 0

LabelShape(row, r) ==
    /\ Carries(row, "furnishingstatus", LabelCode(r.furnishingstatus))
    /\ \A c \in OneHotColumns : Positions(row, c) = {}

OneHotShape(row, r) ==
    /\ Carries(row, "furnishingstatus_furnished", FurnishedFlag(r.furnishingstatus))
    /\ Carries(row, "furnishingstatus_semi-furnished", SemiFlag(r.furnishingstatus))
    /\ r.furnishingstatus = "Unfurnished" =>
          \A c \in OneHotColumns : \A i \in Positions(row, c) : row[i].value = 0
    /\ ~ \A c \in OneHotColumns : \A i \in Positions(row, c) : row[i].value = 1
    /\ Positions(row, "furnishingstatus") = {}

\* The value a raw-derived column has under the encoding the expected count
\* selects, None for a name that is not raw-derived.
RawDerived(r, label, c) ==
    CASE c = "area" -> Some(r.area)
      [] c = "bedrooms" -> Some(r.bedrooms)
      [] c = "bathrooms" -> Some(r.bathrooms)
      [] c = "stories" -> Some(r.stories)
      [] c = "parking" -> Some(r.parking)
      [] c = "mainroad" -> Some(IF r.mainroad = "Yes" THEN 1 ELSE 0)
      [] c = "guestroom" -> Some(IF r.guestroom = "Yes" THEN 1 ELSE 0)
      [] c = "basement" -> Some(IF r.basement = "Yes" THEN 1 ELSE 0)
      [] c = "hotwaterheating" -> Some(IF r.hotwaterheating = "Yes" THEN 1 ELSE 0)
      [] c = "airconditioning" -> Some(IF r.airconditioning = "Yes" THEN 1 ELSE 0)
      [] c = "prefarea" -> Some(IF r.prefarea = "Yes" THEN 1 ELSE 0)
      [] c = "furnishingstatus" /\ label -> Some(LabelCode(r.furnishingstatus))
      [] c = "furnishingstatus_furnished" /\ ~label ->
            Some(FurnishedFlag(r.furnishingstatus))
      [] c = "furnishingstatus_semi-furnished" /\ ~label ->
            Some(SemiFlag(r.furnishingstatus))
      [] OTHER -> None

\* C1 as stated: the returned row carries the single label-encoded column
\* 'furnishingstatus' (and no one-hot column) when the expected count is 12,
\* and the two one-hot columns (and no 'furnishingstatus') for every other or
\* unknown count, whatever the schema's names.
C1_RowShapeFromCountAlone ==
    Built => IF LabelCount THEN LabelShape(Row, raw) ELSE OneHotShape(Row, raw)

\* C1 amended: the furnishing encoding is chosen from the expected count alone.
\* With expected_names absent the returned row has the label shape for count
\* 12 and the one-hot shape otherwise; with expected_names known the row has
\* only the named columns, in which 'furnishingstatus' holds the label code
\* for count 12 and 0 otherwise, and a one-hot column holds its indicator for
\* a count other than 12 and 0 for count 12.
C1_EncodingFromCount ==
    Built =>
      /\ ~NamesKnown =>
            IF LabelCount THEN LabelShape(Row, raw) ELSE OneHotShape(Row, raw)
      /\ NamesKnown =>
            /\ \A c \in OneHotColumns \cup {"furnishingstatus"} :
                  Positions(Row, c) # {} <=>
                      \E k \in 1..Len(ExpectedNames) : ExpectedNames[k] = c
            /\ \A i \in Positions(Row, "furnishingstatus") :
                  Row[i].value =
                      IF LabelCount THEN LabelCode(raw.furnishingstatus) ELSE 0
            /\ \A i \in Positions(Row, "furnishingstatus_furnished") :
                  Row[i].value =
                      IF LabelCount THEN 0 ELSE FurnishedFlag(raw.furnishingstatus)
            /\ \A i \in Positions(Row, "furnishingstatus_semi-furnished") :
                  Row[i].value =
                      IF LabelCount THEN 0 ELSE SemiFlag(raw.furnishingstatus)

\* A twelve column model whose names are those of a two-category one-hot frame:
\* the label column built for it has been dropped from the returned row.
C1_Witness ==
    /\ Built
    /\ LabelCount
    /\ model.feature_names_in_ = Some(TwoCategoryNames)
    /\ raw.furnishingstatus = "Semi-Furnished"
    /\ Positions(Row, "furnishingstatus") = {}
    /\ Carries(Row, "furnishingstatus_semi-furnished", 0)

\* C2: with expected_names known, the returned row's column sequence is
\* expected_names, name for name and in that order.
C2_ColumnsEqualExpectedNames ==
    (Built /\ NamesKnown) =>
        /\ Len(Row) = Len(ExpectedNames)
        /\ \A i \in 1..Len(ExpectedNames) : Row[i].name = ExpectedNames[i]

\* A permuted schema with a column the form does not supply: the one-hot
\* columns built for it were dropped, and 'location_code' was added.
C2_Witness ==
    /\ Built
    /\ model.feature_names_in_ = Some(ExtendedNames)
    /\ model.n_features_in_ = Some(13)
    /\ Row[1].name = "location_code"
    /\ \A c \in OneHotColumns : Positions(Row, c) = {}

\* C3: with expected_names known, every expected name that is not a
\* raw-derived column is in the row with value 0, and every expected name
\* that is raw-derived is in the row with its raw-derived value.
C3_MissingColumnsZeroOthersKept ==
    (Built /\ NamesKnown) =>
        \A k \in 1..Len(ExpectedNames) :
            LET c == ExpectedNames[k]
                v == RawDerived(raw, LabelCount, c)
            IN  /\ Positions(Row, c) # {}
                /\ \A i \in Positions(Row, c) :
                      Row[i].value = IF v = None THEN 0 ELSE v[1]

\* A schema naming both a column the form does not supply and a raw one.
C3_Witness ==
    /\ Built
    /\ NamesKnown
    /\ ExpectedNames = <<"location_code", "area">>
    /\ raw.area = 10000
    /\ Row = <<Col("location_code", 0), Col("area", 10000)>>

\* C4 as stated: whenever expected_count is known, the returned row has
\* exactly expected_count columns.
C4_ColumnCountIsExpectedCount ==
    (Built /\ model.n_features_in_ # None) => Len(Row) = model.n_features_in_[1]

\* C4 amended: with expected_names known the row has as many columns as
\* expected_names has names; with expected_names absent it has 12 columns for
\* expected_count 12 and 13 columns otherwise.  So the column count equals a
\* known expected_count when expected_names is known and has expected_count
\* names, or when expected_names is absent and expected_count is 12 or 13.
C4_ColumnCount ==
    Built =>
      /\ NamesKnown => Len(Row) = Len(ExpectedNames)
      /\ ~NamesKnown => Len(Row) = IF LabelCount THEN 12 ELSE 13
      /\ ( /\ model.n_features_in_ # None
           /\ \/ NamesKnown /\ Len(ExpectedNames) = model.n_features_in_[1]
              \/ ~NamesKnown /\ model.n_features_in_[1] \in {12, 13} )
            => Len(Row) = model.n_features_in_[1]

\* A fourteen column model without names gets the thirteen column one-hot row.
C4_Witness ==
    /\ Built
    /\ ~NamesKnown
    /\ model.n_features_in_ = Some(14)
    /\ Len(Row) = 13

-----------------------------------------------------------------------------
(* Properties of the session and the feedback store, checked under Spec *)

\* The records the store holds, as a reader of the file gets them.
Records(file) == IF file.kind = "json" THEN file.data ELSE <<>>

IsPrefix(a, b) == Len(a) <= Len(b) /\ SubSeq(b, 1, Len(a)) = a

NonBlank(t) == \E i \in 1..Len(t) : t[i] \notin {" ", "\n", "\t"}

SubmitRan == last'.op = "submit"
Form == last'.form[1]

\* C5: a submission with non-blank text adds exactly one record to the store,
\* as its last record, carrying the submitted rating and text and the
\* submitted name ('Anonymous' for an omitted one); on a store that is empty,
\* missing or unparsable it leaves exactly that one record.
C5_SubmissionAppendsOneRecord ==
    [][ (SubmitRan /\ NonBlank(Form.feedback)) =>
          LET after == Records(store')
              rec == after[Len(after)]
          IN  /\ store'.kind = "json"
              /\ Len(after) = Len(Records(store)) + 1
              /\ rec.rating = Form.rating
              /\ rec.feedback = Form.feedback
              /\ rec.name = IF Form.name = "" THEN "Anonymous" ELSE Form.name
              /\ Records(store) = <<>> => Len(after) = 1 ]_vars

\* An unparsable store after one submission with rating 5, the text "Great"
\* between white space, and no name.
C5_Witness ==
    /\ store0.kind = "garbage"
    /\ last.op = "submit"
    /\ last.form = Some([name |-> "", rating |-> 5,
                         feedback |-> <<" ", "G", "r", "e", "a", "t", "\n">>])
    /\ Len(Records(store)) = 1
    /\ store.data[1].name = "Anonymous"
    /\ store.data[1].rating = 5
    /\ store.data[1].feedback = <<" ", "G", "r", "e", "a", "t", "\n">>

\* C6: a submission whose text is empty or only whitespace leaves the store
\* as it was and does not set feedback_submitted.
C6_BlankSubmissionRejected ==
    [][ (SubmitRan /\ ~NonBlank(Form.feedback)) =>
          /\ store' = store
          /\ feedback_submitted' = feedback_submitted ]_vars

\* A whitespace-only submission with a name and a rating, on a missing file.
C6_Witness ==
    /\ last.op = "submit"
    /\ last.form = Some([name |-> "Sid", rating |-> 1,
                         feedback |-> <<"\n", " ", "\t">>])
    /\ store = MissingFile
    /\ ~feedback_submitted

\* C7: the history changes only by a successful Predict, which appends one
\* entry at its end; a failed Predict changes nothing of the session or the
\* store; no other handler changes the history.
C7_HistoryOnlyBySuccessfulPredict ==
    [][ /\ history' # history => last'.op = "predict" /\ last'.ok
        /\ (last'.op = "predict" /\ last'.ok) =>
              /\ Len(history') = Len(history) + 1
              /\ IsPrefix(history, history')
        /\ (last'.op = "predict" /\ ~last'.ok) =>
              UNCHANGED <<history, logged_in, page, store, dark_mode,
                          feedback_submitted>> ]_vars

\* A failed press after a successful one.
C7_Witness ==
    /\ last.op = "predict"
    /\ ~last.ok
    /\ Len(history) = 1
    /\ page = "App"

\* C8: the store is append-only: what it held before a step is a prefix of
\* what it holds after, a missing or unparsable file holding nothing.
C8_StoreAppendOnly ==
    [][ IsPrefix(Records(store), Records(store')) ]_vars

\* Two submissions on a store that started unparsable.
C8_Witness ==
    /\ store0.kind = "garbage"
    /\ Len(Records(store)) = 2
    /\ store.data[1] # store.data[2]

\* C10: logged_in holds exactly when the page is 'App'; only Get Started
\* enters the app and only Confirm Logout leaves it, each setting both
\* fields; predicting, submitting feedback and toggling dark mode change
\* neither; logging out keeps the history.
C10_LoggedInIffApp ==
    /\ [](logged_in <=> page = "App")
    /\ [](page \in {"Welcome", "App"})
    /\ [][ /\ (page' # page \/ logged_in' # logged_in) =>
                \/ last'.op = "get_started" /\ logged_in' /\ page' = "App"
                \/ last'.op = "logout" /\ ~logged_in' /\ page' = "Welcome"
           /\ last'.op = "get_started" => logged_in' /\ page' = "App"
           /\ last'.op = "logout" =>
                ~logged_in' /\ page' = "Welcome" /\ history' = history ]_vars

\* Logged out again with a prediction still in the history.
C10_Witness ==
    /\ last.op = "logout"
    /\ ~logged_in
    /\ page = "Welcome"
    /\ history # <<>>

-----------------------------------------------------------------------------
(* Properties of concurrent submissions, checked under SpecConc *)

AllSaved == \A s \in Sessions : fb[s].pc = "saved"
RecordOf(s) == fb[s].new_feedback[1]

\* One session's load, open and dump all come before the other's load.
Serial == order[3][2] = "dump"

\* Both sessions read before either writes, and the two writes do not overlap.
BothReadFirst ==
    /\ order[1][2] = "load" /\ order[2][2] = "load"
    /\ order[3][2] = "open" /\ order[4][2] = "dump"
    /\ order[5][2] = "open" /\ order[6][2] = "dump"

\* C9: once both sessions have submitted non-blank feedback, submissions that
\* did not interleave leave both records in the store, after what it held,
\* in submission order; submissions that both read before either wrote leave
\* only the record of the session that wrote last.
C9_LostUpdateOnlyWhenInterleaved ==
    AllSaved =>
        /\ Serial =>
              Records(store) =
                  Records(store0) \o <<RecordOf(order[1][1]), RecordOf(order[4][1])>>
        /\ BothReadFirst =>
              Records(store) = Records(store0) \o <<RecordOf(order[6][1])>>

\* Both read, then both wrote: the first writer's record is gone.
C9_Witness ==
    /\ AllSaved
    /\ BothReadFirst
    /\ RecordOf(1) # RecordOf(2)
    /\ Len(Records(store)) = Len(Records(store0)) + 1
    /\ \E s \in Sessions :
          \A i \in 1..Len(Records(store)) : store.data[i] # RecordOf(s)

====
